---- MODULE Spec2Model ----
(***************************************************************************)
(* Model of jc/parsers/date.py: parse() tokenizes the output of `date`     *)
(* into a raw dictionary, process() converts it to the typed schema.       *)
(*                                                                         *)
(* A Python str is a sequence of one-character strings, a dict is a        *)
(* function from key names to values, an int is an Int.  A call either     *)
(* returns a value or raises; both are kept in an outcome record.          *)
(***************************************************************************)
EXTENDS Integers, Sequences, FiniteSets, TLC

VARIABLES
    entry,         \* the function called: "parse" or "process"
    in_data,       \* parse: the argument data
    in_raw,        \* parse: the argument raw
    in_proc_data,  \* process: the argument proc_data
    pc,            \* "call" before the call, "done" after it
    ret,           \* the dictionary returned
    exc            \* the exception raised, NoExc when the call returned

vars == <<entry, in_data, in_raw, in_proc_data, pc, ret, exc>>

(***************************************************************************)
(* Python values                                                           *)
(***************************************************************************)

\* None: a one-element tuple whose element is not a character, so that it
\* differs from every str, the empty str included.
None == <<"None">>

\* {}
EmptyDict == [k \in {} |-> <<>>]

NoExc == [type |-> "none", site |-> "none"]

Return(v) == [exc |-> NoExc, val |-> v]

Raise(t, s) == [exc |-> [type |-> t, site |-> s], val |-> EmptyDict]

Whitespace == {" ", "\t", "\n", "\r", "\f"}

Digits == <<"0", "1", "2", "3", "4", "5", "6", "7", "8", "9">>

UpperCase == <<"A", "B", "C", "D", "E", "F", "G", "H", "I", "J", "K", "L", "M",
               "N", "O", "P", "Q", "R", "S", "T", "U", "V", "W", "X", "Y", "Z">>

LowerCase == <<"a", "b", "c", "d", "e", "f", "g", "h", "i", "j", "k", "l", "m",
               "n", "o", "p", "q", "r", "s", "t", "u", "v", "w", "x", "y", "z">>

IndexIn(c, alphabet) == CHOOSE i \in 1..Len(alphabet) : alphabet[i] = c

ToLower == [c \in {UpperCase[i] : i \in 1..26} |-> LowerCase[IndexIn(c, UpperCase)]]

ToUpper == [c \in {LowerCase[i] : i \in 1..26} |-> UpperCase[IndexIn(c, LowerCase)]]

DigitValue == [c \in {Digits[i] : i \in 1..10} |-> IndexIn(c, Digits) - 1]

IsDigit(c) == c \in DOMAIN DigitValue

\* str.lower()
lower(s) ==
    [i \in 1..Len(s) |->
        IF s[i] \in DOMAIN ToLower THEN ToLower[s[i]] ELSE s[i]]

\* str.upper()
upper(s) ==
    [i \in 1..Len(s) |->
        IF s[i] \in DOMAIN ToUpper THEN ToUpper[s[i]] ELSE s[i]]

\* str.strip() of surrounding whitespace, as int() applies it to its argument
RECURSIVE lstrip(_)
lstrip(s) == IF s # <<>> /\ Head(s) \in Whitespace THEN lstrip(Tail(s)) ELSE s

RECURSIVE rstrip(_)
rstrip(s) ==
    IF s # <<>> /\ s[Len(s)] \in Whitespace THEN rstrip(SubSeq(s, 1, Len(s) - 1)) ELSE s

strip(s) == rstrip(lstrip(s))

\* The digits of an int() literal after the sign: decimal digits, with
\* single underscores allowed between two digits.
unsigned_ok(s) ==
    /\ s # <<>>
    /\ \A i \in 1..Len(s) :
          \/ IsDigit(s[i])
          \/ /\ s[i] = "_"
             /\ i > 1 /\ i < Len(s)
             /\ IsDigit(s[i - 1]) /\ IsDigit(s[i + 1])

RECURSIVE unsigned_val(_, _)
unsigned_val(s, acc) ==
    IF s = <<>> THEN acc
    ELSE IF Head(s) = "_" THEN unsigned_val(Tail(s), acc)
    ELSE unsigned_val(Tail(s), 10 * acc + DigitValue[Head(s)])

has_sign(s) == s # <<>> /\ Head(s) \in {"+", "-"}

\* Mutant of int_ok: a sign is not accepted.
int_ok_unsigned(s) == unsigned_ok(strip(s))

\* int(s) does not raise ValueError
int_ok(s) ==
    LET t == strip(s)
    IN  unsigned_ok(IF has_sign(t) THEN Tail(t) ELSE t)

\* int(s)
int(s) ==
    LET t == strip(s)
    IN  IF has_sign(t)
        THEN (IF Head(t) = "-" THEN -1 ELSE 1) * unsigned_val(Tail(t), 0)
        ELSE unsigned_val(t, 0)

(***************************************************************************)
(* datetime                                                                *)
(***************************************************************************)

is_leap(y) == y % 4 = 0 /\ (y % 100 # 0 \/ y % 400 = 0)

days_in_month(y, m) ==
    IF m = 2 THEN (IF is_leap(y) THEN 29 ELSE 28)
    ELSE IF m \in {4, 6, 9, 11} THEN 30 ELSE 31

\* datetime(y, m, d, hour=, minute=, second=) does not raise ValueError
datetime_ok(y, m, d, hh, mm, ss) ==
    /\ y \in 1..9999
    /\ m \in 1..12
    /\ d \in 1..days_in_month(y, m)
    /\ hh \in 0..23
    /\ mm \in 0..59
    /\ ss \in 0..59

RECURSIVE days_before_month(_, _)
days_before_month(y, m) ==
    IF m = 1 THEN 0 ELSE days_before_month(y, m - 1) + days_in_month(y, m - 1)

days_before_year(y) ==
    (y - 1) * 365 + (y - 1) \div 4 - (y - 1) \div 100 + (y - 1) \div 400

\* proleptic Gregorian ordinal, 0001-01-01 is day 1
ymd2ord(y, m, d) == days_before_year(y) + days_before_month(y, m) + d

\* int(datetime(..., tzinfo=timezone.utc).timestamp())
timestamp_utc(y, m, d, hh, mm, ss) ==
    (ymd2ord(y, m, d) - ymd2ord(1970, 1, 1)) * 86400 + hh * 3600 + mm * 60 + ss

\* int(datetime(...).timestamp()) of a naive datetime: the components are
\* read as local time of the host, whose offset from UTC is off seconds
timestamp_naive(y, m, d, hh, mm, ss, off) ==
    timestamp_utc(y, m, d, hh, mm, ss) - off

(***************************************************************************)
(* process()                                                               *)
(***************************************************************************)

\* ISO 8601 month numberings
month_map ==
    (<<"J", "a", "n">> :> 1) @@ (<<"F", "e", "b">> :> 2) @@ (<<"M", "a", "r">> :> 3) @@
    (<<"A", "p", "r">> :> 4) @@ (<<"M", "a", "y">> :> 5) @@ (<<"J", "u", "n">> :> 6) @@
    (<<"J", "u", "l">> :> 7) @@ (<<"A", "u", "g">> :> 8) @@ (<<"S", "e", "p">> :> 9) @@
    (<<"O", "c", "t">> :> 10) @@ (<<"N", "o", "v">> :> 11) @@ (<<"D", "e", "c">> :> 12)

\* ISO 8601 weekday numberings
weekday_map ==
    (<<"M", "o", "n">> :> 1) @@ (<<"T", "u", "e">> :> 2) @@ (<<"W", "e", "d">> :> 3) @@
    (<<"T", "h", "u">> :> 4) @@ (<<"F", "r", "i">> :> 5) @@ (<<"S", "a", "t">> :> 6) @@
    (<<"S", "u", "n">> :> 7)

\* 'period' in proc_data
has_period(proc_data) == "period" \in DOMAIN proc_data

\* Mutant of dt_hour_24: the 'am' fix is missing, 12 AM stays 12.
dt_hour_24_no_midnight(proc_data) ==
    LET dt_hour == int(proc_data.hour)
    IN  IF has_period(proc_data) /\ proc_data.period # <<>>
           /\ lower(proc_data.period) = <<"p", "m">>
        THEN (IF dt_hour + 12 > 23 THEN 12 ELSE dt_hour + 12)
        ELSE dt_hour

\* fix for 12 vs. 24 hour output
dt_hour_24(proc_data) ==
    LET dt_hour == int(proc_data.hour)
    IN  IF has_period(proc_data) /\ proc_data.period # <<>>
        THEN LET p == lower(proc_data.period)
                 pm_fixed == IF p = <<"p", "m">>
                             THEN (IF dt_hour + 12 > 23 THEN 12 ELSE dt_hour + 12)
                             ELSE dt_hour
             IN  IF p = <<"a", "m">> /\ pm_fixed = 12 THEN 0 ELSE pm_fixed
        ELSE dt_hour

\* Mutant of period_out: a missing period defaults to the empty str.
period_out_empty_default(proc_data) ==
    IF has_period(proc_data) THEN upper(proc_data.period) ELSE <<>>

\* the value stored under 'period'
period_out(proc_data) ==
    IF has_period(proc_data) THEN upper(proc_data.period) ELSE None

\* Mutant of is_utc: the comparison ignores case.
is_utc_any_case(proc_data) == upper(proc_data.timezone) = <<"U", "T", "C">>

\* create aware datetime object only if the timezone is UTC
is_utc(proc_data) == proc_data.timezone = <<"U", "T", "C">>

\* Mutant of process_error: the weekday is looked up with the month, before
\* the datetime is built.
process_error_weekday_first(proc_data) ==
    IF ~int_ok(proc_data.year) THEN [type |-> "ValueError", site |-> "int"]
    ELSE IF proc_data.month \notin DOMAIN month_map
        THEN [type |-> "KeyError", site |-> "month_map"]
    ELSE IF proc_data.weekday \notin DOMAIN weekday_map
        THEN [type |-> "KeyError", site |-> "weekday_map"]
    ELSE IF \E k \in {"day", "hour", "minute", "second"} : ~int_ok(proc_data[k])
        THEN [type |-> "ValueError", site |-> "int"]
    ELSE IF ~datetime_ok(int(proc_data.year), month_map[proc_data.month],
                         int(proc_data.day), dt_hour_24(proc_data),
                         int(proc_data.minute), int(proc_data.second))
        THEN [type |-> "ValueError", site |-> "datetime"]
    ELSE NoExc

\* The first exception raised by the statements of process, in the order
\* in which they are executed; NoExc when none raises.
process_error(proc_data) ==
    IF ~int_ok(proc_data.year) THEN [type |-> "ValueError", site |-> "int"]
    ELSE IF proc_data.month \notin DOMAIN month_map
        THEN [type |-> "KeyError", site |-> "month_map"]
    ELSE IF ~int_ok(proc_data.day) THEN [type |-> "ValueError", site |-> "int"]
    ELSE IF ~int_ok(proc_data.hour) THEN [type |-> "ValueError", site |-> "int"]
    ELSE IF ~int_ok(proc_data.minute) THEN [type |-> "ValueError", site |-> "int"]
    ELSE IF ~int_ok(proc_data.second) THEN [type |-> "ValueError", site |-> "int"]
    ELSE IF ~datetime_ok(int(proc_data.year), month_map[proc_data.month],
                         int(proc_data.day), dt_hour_24(proc_data),
                         int(proc_data.minute), int(proc_data.second))
        THEN [type |-> "ValueError", site |-> "datetime"]
    ELSE IF proc_data.weekday \notin DOMAIN weekday_map
        THEN [type |-> "KeyError", site |-> "weekday_map"]
    ELSE NoExc

\* date_obj as the dictionary display builds it, before epoch_utc is added
date_items(proc_data, off) ==
    LET dt_year == int(proc_data.year)
        dt_month == month_map[proc_data.month]
        dt_day == int(proc_data.day)
        dt_hour == int(proc_data.hour)
        dt_minute == int(proc_data.minute)
        dt_second == int(proc_data.second)
        hour_24 == dt_hour_24(proc_data)
    IN  [year |-> dt_year,
         month_num |-> dt_month,
         day |-> dt_day,
         hour |-> dt_hour,
         hour_24 |-> hour_24,
         minute |-> dt_minute,
         second |-> dt_second,
         period |-> period_out(proc_data),
         month |-> proc_data.month,
         weekday |-> proc_data.weekday,
         weekday_num |-> weekday_map[proc_data.weekday],
         timezone |-> proc_data.timezone,
         epoch |-> timestamp_naive(dt_year, dt_month, dt_day, hour_24,
                                   dt_minute, dt_second, off)]

\* the epoch_utc item
epoch_utc_item(proc_data) ==
    "epoch_utc" :> timestamp_utc(int(proc_data.year), month_map[proc_data.month],
                                 int(proc_data.day), dt_hour_24(proc_data),
                                 int(proc_data.minute), int(proc_data.second))

\* Mutant of date_obj: 'hour' is given the converted hour.
date_obj_hour_converted(proc_data, off) ==
    [(IF is_utc(proc_data)
      THEN date_items(proc_data, off) @@ epoch_utc_item(proc_data)
      ELSE date_items(proc_data, off)) EXCEPT !.hour = dt_hour_24(proc_data)]

\* the dictionary process returns for a non-empty proc_data
date_obj(proc_data, off) ==
    IF is_utc(proc_data)
    THEN date_items(proc_data, off) @@ epoch_utc_item(proc_data)
    ELSE date_items(proc_data, off)

\* process(proc_data), run on a host whose local time is off seconds east of UTC
process(proc_data, off) ==
    IF DOMAIN proc_data # {}
    THEN IF process_error(proc_data) # NoExc
         THEN [exc |-> process_error(proc_data), val |-> EmptyDict]
         ELSE Return(date_obj(proc_data, off))
    ELSE Return(EmptyDict)

(***************************************************************************)
(* parse()                                                                 *)
(***************************************************************************)

\* jc.utils.has_data(data): the text holds something other than whitespace
has_data(data) == \E i \in 1..Len(data) : data[i] \notin Whitespace

\* data.replace(':', ' ')
replace_colons(s) == [i \in 1..Len(s) |-> IF s[i] = ":" THEN " " ELSE s[i]]

RECURSIVE split_from(_, _, _, _)
split_from(s, i, cur, acc) ==
    IF i > Len(s) THEN (IF cur = <<>> THEN acc ELSE Append(acc, cur))
    ELSE IF s[i] \in Whitespace
        THEN split_from(s, i + 1, <<>>, IF cur = <<>> THEN acc ELSE Append(acc, cur))
    ELSE split_from(s, i + 1, Append(cur, s[i]), acc)

\* data.split(): the maximal runs of non-whitespace characters, in order
split(s) == split_from(s, 1, <<>>, <<>>)

\* 'AM' in split_data or 'am' in split_data or 'PM' in split_data or 'pm' in split_data
has_marker(split_data) ==
    \E i \in 1..Len(split_data) :
        split_data[i] \in {<<"A", "M">>, <<"a", "m">>, <<"P", "M">>, <<"p", "m">>}

\* date v8.32 uses a different format depending on locale (LANG=en_US.UTF-8)
is_12_hour(split_data) == Len(split_data) = 9 /\ has_marker(split_data)

\* the dictionary of the LANG=en_US.UTF-8 branch; Python indexes from 0
raw_output_12(split_data) ==
    [year |-> split_data[9],
     month |-> split_data[2],
     day |-> split_data[3],
     weekday |-> split_data[1],
     hour |-> split_data[4],
     minute |-> split_data[5],
     second |-> split_data[6],
     period |-> split_data[7],
     timezone |-> split_data[8]]

\* the dictionary of the standard LANG=C branch
raw_output_24(split_data) ==
    [year |-> split_data[8],
     month |-> split_data[2],
     day |-> split_data[3],
     weekday |-> split_data[1],
     hour |-> split_data[4],
     minute |-> split_data[5],
     second |-> split_data[6],
     timezone |-> split_data[7]]

\* Mutant of tokenize: the has_data guard is missing.
tokenize_unguarded(text) ==
    LET split_data == split(replace_colons(text))
    IN  IF is_12_hour(split_data) THEN Return(raw_output_12(split_data))
        ELSE IF Len(split_data) < 8 THEN Raise("IndexError", "split_data")
        ELSE Return(raw_output_24(split_data))

\* raw_output after the tokenizing block, or the IndexError it raises
tokenize(text) ==
    IF has_data(text)
    THEN LET split_data == split(replace_colons(text))
         IN  IF is_12_hour(split_data) THEN Return(raw_output_12(split_data))
             ELSE IF Len(split_data) < 8 THEN Raise("IndexError", "split_data")
             ELSE Return(raw_output_24(split_data))
    ELSE Return(EmptyDict)

\* parse(data, raw, quiet=True), run on a host off seconds east of UTC
parse(text, r, off) ==
    LET raw_output == tokenize(text)
    IN  IF raw_output.exc # NoExc THEN raw_output
        ELSE IF r THEN raw_output
        ELSE process(raw_output.val, off)

(***************************************************************************)
(* Inputs                                                                  *)
(***************************************************************************)

\* hour tokens 00..MaxHour, 23 and 24 are given to process
MaxHour == 13

\* at most MaxTail tokens follow the seconds in a line given to parse
MaxTail == 4

\* the two-digit decimal numeral of n, as date prints it
two_digits(n) == <<Digits[(n \div 10) + 1], Digits[(n % 10) + 1]>>

RECURSIVE join(_, _)
join(tokens, sep) ==
    IF tokens = <<>> THEN <<>>
    ELSE IF Len(tokens) = 1 THEN Head(tokens)
    ELSE Head(tokens) \o sep \o join(Tail(tokens), sep)

\* Offsets from UTC, in seconds, of the host's local time (UTC and UTC-7);
\* timestamp() of a naive datetime reads the host's zone when it is called.
HostOffsets == {0, -25200}

TailTokens ==
    {<<"P", "M">>, <<"a", "m">>, <<"P", "m">>, <<"U", "T", "C">>, <<"2", "0", "2", "1">>}

Tails == UNION {[1..n -> TailTokens] : n \in 0..MaxTail}

\* weekday, month, day and time of a line of date, then the tail tokens;
\* fields are separated by sep and the line ends with eol
line(weekday, hour, tail, sep, eol) ==
    join(<<weekday, <<"M", "a", "r">>, <<"2", "3">>,
           hour \o <<":", "4", "5", ":", "2", "9">>>> \o tail, sep) \o eol

\* the weekday, the separator and the line end of the lines given to parse
Shapes ==
    {<< <<"T", "u", "e">>, <<" ">>, <<>> >>,
     << <<"T", "u", "e">>, <<" ", " ">>, <<"\n">> >>,
     << <<"a", "m">>, <<" ">>, <<"\n">> >>}

Lines ==
    {line(sh[1], two_digits(h), t, sh[2], sh[3]) :
        sh \in Shapes, h \in {8, 12, 20}, t \in Tails}

\* texts without a token
TokenlessInputs == {<<>>, <<" ">>, <<"\n">>, <<" ", "\t", "\r", "\n">>, <<":">>, <<" ", ":">>}

ParseInputs == Lines \cup TokenlessInputs

Years == {<<"2", "0", "2", "1">>, <<"2", "0", "x", "1">>}

Months == {<<"M", "a", "r">>, <<"F", "e", "b">>, <<"F", "o", "o">>}

Days == {<<"2", "3">>, <<"3", "0">>, <<"3", "x">>}

Weekdays == {<<"T", "u", "e">>, <<"X", "y", "z">>}

Hours ==
    {two_digits(h) : h \in 0..MaxHour} \cup {<<"2", "3">>, <<"2", "4">>} \cup
    {<<"+", "0", "8">>, <<"-", "5">>, <<"8", "a">>, <<"1", "_", "1">>, <<" ", "8">>}

\* minute and second
MinuteSeconds ==
    {<< <<"4", "5">>, <<"2", "9">> >>, << <<"4", "x">>, <<"2", "9">> >>,
     << <<"4", "5">>, <<"2", "x">> >>}

Periods ==
    {<<>>, <<"P", "M">>, <<"p", "m">>, <<"P", "m">>, <<"A", "M">>, <<"a", "M">>,
     <<"X", "Y", "Z">>}

Timezones == {<<"U", "T", "C">>, <<"u", "t", "c">>, <<"G", "M", "T">>}

Fields24 ==
    {f \in [year : Years, month : Months, day : Days, weekday : Weekdays, hour : Hours,
            minute : {ms[1] : ms \in MinuteSeconds},
            second : {ms[2] : ms \in MinuteSeconds}, timezone : Timezones] :
        <<f.minute, f.second>> \in MinuteSeconds}

ProcessInputs ==
    {EmptyDict} \cup Fields24 \cup {f @@ ("period" :> p) : f \in Fields24, p \in Periods}

(***************************************************************************)
(* The calls                                                               *)
(***************************************************************************)

Init ==
    /\ \/ /\ entry = "parse"
          /\ in_data \in ParseInputs
          /\ in_raw \in BOOLEAN
          /\ in_proc_data = EmptyDict
       \/ /\ entry = "process"
          /\ in_data = <<>>
          /\ in_raw = FALSE
          /\ in_proc_data \in ProcessInputs
    /\ pc = "call"
    /\ ret = EmptyDict
    /\ exc = NoExc

ParseCall ==
    /\ pc = "call"
    /\ entry = "parse"
    /\ \E off \in HostOffsets :
          LET out == parse(in_data, in_raw, off)
          IN  /\ ret' = out.val
              /\ exc' = out.exc
    /\ pc' = "done"
    /\ UNCHANGED <<entry, in_data, in_raw, in_proc_data>>

ProcessCall ==
    /\ pc = "call"
    /\ entry = "process"
    /\ \E off \in HostOffsets :
          LET out == process(in_proc_data, off)
          IN  /\ ret' = out.val
              /\ exc' = out.exc
    /\ pc' = "done"
    /\ UNCHANGED <<entry, in_data, in_raw, in_proc_data>>

Next == ParseCall \/ ProcessCall

Spec == Init /\ [][Next]_vars

TypeOK ==
    /\ pc \in {"call", "done"}
    /\ entry \in {"parse", "process"}
    /\ exc.type \in {"none", "ValueError", "KeyError", "IndexError"}

(***************************************************************************)
(* Properties                                                              *)
(***************************************************************************)

Done == pc = "done"

\* the call went through process and returned a non-empty record
Record ==
    /\ Done
    /\ entry = "process" \/ ~in_raw
    /\ exc = NoExc
    /\ DOMAIN ret # {}

\* the tokens of the text given to parse
Tokens == split(replace_colons(in_data))

Markers == {<<"A", "M">>, <<"a", "m">>, <<"P", "M">>, <<"p", "m">>}

HasMarker == \E i \in 1..Len(Tokens) : Tokens[i] \in Markers

HasMarkerAnyCase ==
    \E i \in 1..Len(Tokens) : lower(Tokens[i]) \in {<<"a", "m">>, <<"p", "m">>}

Map12(t) ==
    [weekday |-> t[1], month |-> t[2], day |-> t[3], hour |-> t[4], minute |-> t[5],
     second |-> t[6], period |-> t[7], timezone |-> t[8], year |-> t[9]]

Map24(t) ==
    [weekday |-> t[1], month |-> t[2], day |-> t[3], hour |-> t[4], minute |-> t[5],
     second |-> t[6], timezone |-> t[7], year |-> t[8]]

\* the hour token: index 3 in both layouts
HourToken == IF entry = "process" THEN in_proc_data.hour ELSE Tokens[4]

\* the RawFields carry a period
HasPeriodField ==
    IF entry = "process" THEN "period" \in DOMAIN in_proc_data
    ELSE Len(Tokens) = 9 /\ HasMarker

PeriodToken == IF entry = "process" THEN in_proc_data.period ELSE Tokens[7]

NumericKeys == {"year", "day", "hour", "minute", "second"}

NumericFormatError == [type |-> "ValueError", site |-> "int"]

CalendarError == [type |-> "ValueError", site |-> "datetime"]

MonthLookupError == [type |-> "KeyError", site |-> "month_map"]

WeekdayLookupError == [type |-> "KeyError", site |-> "weekday_map"]

\* process was called with a non-empty dictionary and has finished
Normalized == Done /\ entry = "process" /\ DOMAIN in_proc_data # {}

\* the six components of f form a valid instant
ValidInstant(f) ==
    datetime_ok(int(f.year), month_map[f.month], int(f.day), dt_hour_24(f),
                int(f.minute), int(f.second))

\* C1: for every text that is empty or only whitespace, parse returns an
\* empty mapping and raises nothing, with raw true and with raw false.
C1_BlankInputEmptyMapping ==
    (Done /\ entry = "parse" /\ \A i \in 1..Len(in_data) : in_data[i] \in Whitespace)
        => (exc = NoExc /\ DOMAIN ret = {})

C1_Witness ==
    /\ Done /\ entry = "parse" /\ ~in_raw
    /\ in_data = <<" ", "\t", "\r", "\n">>
    /\ exc = NoExc /\ DOMAIN ret = {}

OtherKeys ==
    {"year", "month_num", "day", "hour", "hour_24", "minute", "second", "period",
     "month", "weekday", "weekday_num", "timezone", "epoch"}

\* C2: a record has the key epoch_utc iff its timezone token is exactly
\* "UTC"; the other 13 keys are always present and there is no further key.
C2_EpochUtcIffUTC ==
    Record =>
        /\ ("epoch_utc" \in DOMAIN ret) <=> (ret.timezone = <<"U", "T", "C">>)
        /\ DOMAIN ret \ {"epoch_utc"} = OtherKeys
        /\ ret.timezone = IF entry = "process" THEN in_proc_data.timezone
                          ELSE IF HasPeriodField THEN Tokens[8] ELSE Tokens[7]

C2_Witness ==
    /\ Record
    /\ ret.timezone = <<"u", "t", "c">>
    /\ "epoch_utc" \notin DOMAIN ret

\* C3: a text of exactly 9 tokens with a token equal to "am" or "pm" under
\* case-insensitive comparison is mapped with the 12-hour layout; every
\* other text with enough tokens is mapped with the 24-hour layout.
C3_LayoutIsCaseInsensitive ==
    (Done /\ entry = "parse" /\ in_raw /\ Tokens # <<>>) =>
        IF Len(Tokens) = 9 /\ HasMarkerAnyCase
        THEN exc = NoExc /\ ret = Map12(Tokens)
        ELSE Len(Tokens) >= 8 => (exc = NoExc /\ ret = Map24(Tokens))

\* C4: in every record hour_24 is in 0..23 and hour is the integer value of
\* the hour token.
C4_Hour24InRangeHourKept ==
    Record => (ret.hour_24 \in 0..23 /\ ret.hour = int(HourToken))

C4_Witness ==
    /\ Record
    /\ HourToken = <<"0", "8">>
    /\ ret.period = <<"P", "M">>
    /\ ret.hour = 8
    /\ ret.hour_24 = 20

\* C5: a record parsed from a 9-token text that holds an AM/PM marker has
\* period "AM" or "PM", wherever the marker stands.
C5_PeriodIsAmOrPm ==
    (Record /\ entry = "parse" /\ Len(Tokens) = 9 /\ HasMarker)
        => ret.period \in {<<"A", "M">>, <<"P", "M">>}

ScenarioLine12 ==
    <<"T", "u", "e", " ", "M", "a", "r", " ", "2", "3", " ", "0", "8", ":", "4", "5",
      ":", "2", "9", " ", "P", "M", " ", "U", "T", "C", " ", "2", "0", "2", "1">>

\* C6: with period "pm" in any case hour_24 is h+12, or 12 when h+12 > 23;
\* with period "am" in any case hour_24 is 0 when h = 12 and h otherwise;
\* "Tue Mar 23 08:45:29 PM UTC 2021" gives hour_24 20 and epoch_utc 1616532329.
C6_TwelveHourConversion ==
    /\ (Record /\ HasPeriodField) =>
          LET h == int(HourToken)
              p == lower(PeriodToken)
          IN  /\ p = <<"p", "m">> => ret.hour_24 = IF h + 12 <= 23 THEN h + 12 ELSE 12
              /\ p = <<"a", "m">> => ret.hour_24 = IF h = 12 THEN 0 ELSE h
    /\ (Done /\ entry = "parse" /\ ~in_raw /\ in_data = ScenarioLine12) =>
          /\ exc = NoExc
          /\ \E off \in HostOffsets :
                ret = [year |-> 2021, month_num |-> 3, day |-> 23, hour |-> 8,
                       hour_24 |-> 20, minute |-> 45, second |-> 29,
                       period |-> <<"P", "M">>, month |-> <<"M", "a", "r">>,
                       weekday |-> <<"T", "u", "e">>, weekday_num |-> 2,
                       timezone |-> <<"U", "T", "C">>,
                       epoch |-> 1616532329 - off, epoch_utc |-> 1616532329]

C6_Witness ==
    /\ Record /\ entry = "process"
    /\ "period" \in DOMAIN in_proc_data
    /\ in_proc_data.period = <<"a", "M">>
    /\ ret.hour = 12
    /\ ret.hour_24 = 0

\* C7: a record parsed from a text mapped by the 24-hour branch (not 9
\* tokens, or no marker among them) has period None and hour = hour_24.
C7_TwentyFourHourLayout ==
    (Record /\ entry = "parse" /\ ~(Len(Tokens) = 9 /\ HasMarker))
        => (ret.period = None /\ ret.hour = ret.hour_24)

C7_Witness ==
    /\ Record /\ entry = "parse"
    /\ Len(Tokens) = 10
    /\ ret.period = None
    /\ ret.hour = 20 /\ ret.hour_24 = 20

\* C8: RawFields whose period is the empty str give a record with
\* hour_24 = hour and period None.
C8_EmptyPeriodGivesNull ==
    (Record /\ entry = "process" /\ "period" \in DOMAIN in_proc_data
        /\ in_proc_data.period = <<>>)
        => (ret.hour_24 = ret.hour /\ ret.period = None)

\* C9, as claimed: a non-numeric year, day, hour, minute or second is
\* reported first, then an unknown month or weekday, and only then an
\* invalid calendar instant.
C9_SpecOrder ==
    Normalized =>
        LET f == in_proc_data
        IN  /\ (\E k \in NumericKeys : ~int_ok(f[k])) => exc = NumericFormatError
            /\ ((\A k \in NumericKeys : int_ok(f[k]))
                  /\ (f.month \notin DOMAIN month_map \/ f.weekday \notin DOMAIN weekday_map))
               => exc.type = "KeyError"

\* C9, amended: the steps fail in the order year, month, day/hour/minute/
\* second, calendar instant, weekday.
C9_CodeOrder ==
    Normalized =>
        LET f == in_proc_data
            rest_ok == \A k \in {"day", "hour", "minute", "second"} : int_ok(f[k])
            month_ok == f.month \in DOMAIN month_map
        IN  /\ ~int_ok(f.year) => exc = NumericFormatError
            /\ (int_ok(f.year) /\ ~month_ok) => exc = MonthLookupError
            /\ (int_ok(f.year) /\ month_ok /\ ~rest_ok) => exc = NumericFormatError
            /\ (int_ok(f.year) /\ month_ok /\ rest_ok /\ ~ValidInstant(f))
                  => exc = CalendarError
            /\ (int_ok(f.year) /\ month_ok /\ rest_ok /\ ValidInstant(f)
                  /\ f.weekday \notin DOMAIN weekday_map) => exc = WeekdayLookupError

C9_Witness ==
    /\ Normalized
    /\ in_proc_data.weekday = <<"X", "y", "z">>
    /\ in_proc_data.month = <<"F", "e", "b">>
    /\ in_proc_data.day = <<"3", "0">>
    /\ exc = CalendarError

UnsignedDigits(tok) == tok # <<>> /\ \A i \in 1..Len(tok) : IsDigit(tok[i])

\* an int() literal: whitespace, an optional sign, then digits that single
\* underscores may separate, whitespace
IntLiteral(tok) ==
    LET t == strip(tok)
        body == IF t # <<>> /\ t[1] \in {"+", "-"} THEN Tail(t) ELSE t
    IN  /\ body # <<>>
        /\ IsDigit(body[1]) /\ IsDigit(body[Len(body)])
        /\ \A i \in 1..Len(body) : IsDigit(body[i]) \/ body[i] = "_"
        /\ \A i \in 1..(Len(body) - 1) : ~(body[i] = "_" /\ body[i + 1] = "_")

\* C10, as claimed: a record is returned only when year, day, hour, minute
\* and second are unsigned runs of decimal digits.
C10_UnsignedDigitsOnly ==
    (Record /\ entry = "process")
        => \A k \in NumericKeys : UnsignedDigits(in_proc_data[k])

\* C10, amended: the five tokens are accepted exactly when they are int()
\* literals, sign included, and the record holds their signed values; any
\* other token makes process raise, a numeric-format error unless the month
\* lookup fails first.
C10_IntLiterals ==
    Normalized =>
        LET f == in_proc_data
            month_ok == f.month \in DOMAIN month_map
            literals == \A k \in NumericKeys : IntLiteral(f[k])
        IN  /\ ~literals => exc # NoExc
            /\ (~literals /\ (~IntLiteral(f.year) \/ month_ok)) => exc = NumericFormatError
            /\ (literals /\ month_ok /\ f.weekday \in DOMAIN weekday_map /\ ValidInstant(f))
                  => /\ exc = NoExc
                     /\ \A k \in NumericKeys \ {"hour"} : ret[k] = int(f[k])
                     /\ ret.hour = int(f.hour)

C10_Witness ==
    /\ Record /\ entry = "process"
    /\ in_proc_data.hour = <<"+", "0", "8">>
    /\ ret.hour = 8
    /\ ret.hour_24 = 8

====
